---- MODULE Spec2Model ----
(***************************************************************************)
(* A model of srishina/mqtt.rs: the topic trie (src/src/trie.rs), the      *)
(* TopicMatcher and its reader/writer lock (src/src/topic.rs), the         *)
(* primitive codec (src/mqttio/src/io.rs), the property framework          *)
(* (src/mqttio/src/properties.rs and the code generated by                 *)
(* src/propertyio_derive/src/lib.rs) and the CONNECT packet                *)
(* (src/src/packet/connect.rs).                                            *)
(*                                                                         *)
(* A topic is a sequence of characters, a character a one-letter string.   *)
(* A trie is a function from the paths of its nodes (a path is the         *)
(* sequence of segments that leads from the root to the node, the root     *)
(* being the empty path) to the node's subscribed flag.                    *)
(***************************************************************************)
EXTENDS Integers, Sequences, FiniteSets, TLC

VARIABLES
    nodes,      \* Trie.root and everything below it: path -> subscribed
    subs,       \* history: filters subscribed with Ok and not unsubscribed since
    last,       \* the last call on the TopicMatcher: [op, topic, result]
    pre,        \* the trie before the last call
    pre2,       \* the trie before the subscribe(f) that an unsubscribe(f) undoes
    lock,       \* RwLock state: [writer: thread or NoThread, readers: set of threads]
    thr,        \* per thread: [pc, topic, i: next part to insert, at: node to detach]
    committed,  \* history: the trie when the write lock was last free
    overflow_checks, \* build profile: TRUE panics on integer overflow, FALSE wraps
    msg,        \* codec: the Connect message or property structure at hand
    wire,       \* codec: the bytes written or to be read
    out,        \* codec: the result of the last read or write
    cpc,        \* codec: what the last step was
    queue,      \* SyncQueue: [data, closed, mutex: holder or NoThread, cv: waiting threads]
    qthr,       \* per thread on the queue: [pc, n: pushes made, closed: its load, ret, v, at]
    pushed,     \* history: the values pushed, in the order of push_back
    popped      \* history: the values popped, in the order of pop_front

vars == <<nodes, subs, last, pre, pre2, lock, thr, committed,
          overflow_checks, msg, wire, out, cpc, queue, qthr, pushed, popped>>

trieVars == <<nodes, subs, last, pre, pre2>>
lockVars == <<lock, thr, committed>>
codecVars == <<overflow_checks, msg, wire, out, cpc>>
queueVars == <<queue, qthr, pushed, popped>>

(***************************************************************************)
(* Bounds of the model.                                                    *)
(***************************************************************************)
MaxLevels == 2
MaxNodes == 3
MaxPairs == 2
MaxItems == 2
MaxSkew == 2
MaxBlockItems == 2
MaxVarBytes == 5
MaxStrChars == 2
MaxFilterChars == 3
PushesPerProducer == 2

\* The segments topics are made of: two literals and the two wildcards.
Segments == {<<"a">>, <<"b">>, <<"+">>, <<"#">>}

RECURSIVE JoinedTopics(_)
JoinedTopics(n) ==
    IF n = 1 THEN Segments
    ELSE LET shorter == JoinedTopics(n - 1)
         IN  shorter \cup {t \o <<"/">> \o s : t \in shorter, s \in Segments}

\* Every topic of up to MaxLevels levels, valid as a filter or not.
Topics == JoinedTopics(MaxLevels)

(***************************************************************************)
(* Strings.                                                                *)
(***************************************************************************)
\* str::len() counts bytes, str::chars() yields characters.
ByteWidth(c) == IF c \in {"a", "b", "/", "+", "#", " "} THEN 1 ELSE 2

ByteLen(s) == Len(s) + Cardinality({i \in 1..Len(s) : ByteWidth(s[i]) = 2})

\* str::split("/"): the segments between the separators, at least one.
RECURSIVE SplitFrom(_, _, _)
SplitFrom(s, i, cur) ==
    IF i > Len(s) THEN <<cur>>
    ELSE IF s[i] = "/" THEN <<cur>> \o SplitFrom(s, i + 1, <<>>)
    ELSE SplitFrom(s, i + 1, Append(cur, s[i]))

Split(s) == SplitFrom(s, 1, <<>>)

(***************************************************************************)
(* Topic validation.                                                       *)
(***************************************************************************)
MaxTopicBytes == 65535

\* validate_publish_topic with the length counted in characters.
validate_publish_topic_by_chars(topic) ==
    IF Len(topic) > MaxTopicBytes THEN "TopicLenTooLong"
    ELSE IF \E i \in 1..Len(topic) : topic[i] \in {"#", "+"} THEN "InvalidTopic"
    ELSE "Ok"

validate_publish_topic(topic) ==
    IF ByteLen(topic) > MaxTopicBytes THEN "TopicLenTooLong"
    ELSE IF \E i \in 1..Len(topic) : topic[i] \in {"#", "+"} THEN "InvalidTopic"
    ELSE "Ok"

\* The loop of validate_subscribe_topic from the character with (0-based) index
\* i - 1; prev is previous_char. chars().nth(i + 1).unwrap() panics when the
\* topic has no such character.
RECURSIVE validate_subscribe_loop(_, _, _)
validate_subscribe_loop(topic, i, prev) ==
    IF i > Len(topic) THEN "Ok"
    ELSE LET c == topic[i]
             idx == i - 1
             topic_len == ByteLen(topic)
         IN  IF c = "+"
             THEN IF idx # 0 /\ prev # "/" THEN "InvalidTopic"
                  ELSE IF idx < topic_len - 1
                       THEN IF i + 1 > Len(topic) THEN "Panic"
                            ELSE IF topic[i + 1] # "/" THEN "InvalidTopic"
                            ELSE validate_subscribe_loop(topic, i + 1, c)
                       ELSE validate_subscribe_loop(topic, i + 1, c)
             ELSE IF c = "#"
             THEN IF (idx # 0 /\ prev # "/") \/ idx < topic_len - 1
                  THEN "InvalidTopic"
                  ELSE validate_subscribe_loop(topic, i + 1, c)
             ELSE validate_subscribe_loop(topic, i + 1, c)

validate_subscribe_topic(topic) ==
    IF topic = <<>> THEN "EmptySubscriptionTopic"
    ELSE IF ByteLen(topic) > MaxTopicBytes THEN "TopicLenTooLong"
    ELSE validate_subscribe_loop(topic, 1, topic[1])

(***************************************************************************)
(* The trie.                                                               *)
(***************************************************************************)
Root == <<>>

\* Trie::new: a root without value, parent or subscription.
EmptyTrie == [p \in {Root} |-> FALSE]

Parent(p) == SubSeq(p, 1, Len(p) - 1)

Children(n, p) == {q \in DOMAIN n : Len(q) = Len(p) + 1 /\ Parent(q) = p}

has_subscription(n, p) == n[p]

has_children(n, p) == Children(n, p) # {}

has_child(n, p, part) == Append(p, part) \in DOMAIN n

\* Some(parent) unless the node is the root, whose Weak is empty.
get_parent(p) == IF p = Root THEN <<>> ELSE <<Parent(p)>>

set_subscription(n, p, subscribed) == [n EXCEPT ![p] = subscribed]

\* HashMap::remove of the child: the child and everything it owns goes.
remove_child(n, p, key) ==
    LET gone == Append(p, key)
        keep == {q \in DOMAIN n : ~(Len(q) >= Len(gone) /\ SubSeq(q, 1, Len(gone)) = gone)}
    IN  [q \in keep |-> n[q]]

\* entry(part).or_insert_with(new node): an existing child is returned as it
\* is, a new one gets the subscribed flag.
get_or_insert_child(n, p, part, subscribed) ==
    LET q == Append(p, part)
    IN  IF q \in DOMAIN n THEN n
        ELSE [r \in DOMAIN n \cup {q} |-> IF r = q THEN subscribed ELSE n[r]]

\* One turn of the while loop of Trie::insert: the i-th part, below path p.
InsertPart(n, parts, i) ==
    get_or_insert_child(n, SubSeq(parts, 1, i - 1), parts[i], i = Len(parts))

RECURSIVE InsertFrom(_, _, _)
InsertFrom(n, parts, i) ==
    IF i > Len(parts) THEN n
    ELSE InsertFrom(InsertPart(n, parts, i), parts, i + 1)

insert(n, topic) == InsertFrom(n, Split(topic), 1)

\* One call of detach_child up to its recursive call: the trie it leaves and
\* the node it goes on with (<<>> when it returns).
DetachOne(n, p) ==
    IF has_children(n, p)
    THEN [n |-> IF has_subscription(n, p) THEN set_subscription(n, p, FALSE) ELSE n,
          next |-> <<>>]
    ELSE IF get_parent(p) = <<>> THEN [n |-> n, next |-> <<>>]
    ELSE IF has_subscription(n, p)
         THEN [n |-> remove_child(n, Parent(p), p[Len(p)]), next |-> get_parent(p)]
         ELSE [n |-> n, next |-> <<>>]

RECURSIVE detach_child(_, _)
detach_child(n, p) ==
    LET r == DetachOne(n, p)
    IN  IF r.next = <<>> THEN r.n ELSE detach_child(r.n, r.next[1])

\* The walk of Trie::delete down the parts: TRUE when every child exists.
DeleteFinds(n, topic) ==
    \A i \in 1..Len(Split(topic)) : SubSeq(Split(topic), 1, i) \in DOMAIN n

\* Trie::delete: walk down the parts, give up at a missing child.
delete(n, topic) ==
    IF DeleteFinds(n, topic) THEN detach_child(n, Split(topic)) ELSE n

\* match_topic_part and its inner match_child. parts is the whole split, i the
\* number of parts the shared iterator has handed out, current the Option
\* (<<>> is None, <<s>> is Some(s)). The result carries the iterator position,
\* since the iterator is shared by reference between the calls.
RECURSIVE match_topic_part(_, _, _, _, _)
RECURSIVE match_child(_, _, _, _, _)
match_child(n, p, parts, i, value) ==
    IF has_child(n, p, value)
    THEN IF value = <<"+">> /\ i >= Len(parts)
         THEN [res |-> TRUE, i |-> i]
         ELSE IF i < Len(parts)
              THEN match_topic_part(n, Append(p, value), parts, i + 1, <<parts[i + 1]>>)
              ELSE match_topic_part(n, Append(p, value), parts, i, <<>>)
    ELSE [res |-> FALSE, i |-> i]

match_topic_part(n, p, parts, i, current) ==
    IF has_child(n, p, <<"#">>) THEN [res |-> TRUE, i |-> i]
    ELSE IF current = <<>> THEN [res |-> has_subscription(n, p), i |-> i]
    ELSE LET plus == match_child(n, p, parts, i, <<"+">>)
         IN  IF plus.res THEN plus
             ELSE match_child(n, p, parts, plus.i, current[1])

match_topic(n, topic) ==
    LET parts == Split(topic)
    IN  match_topic_part(n, Root, parts, 1, <<parts[1]>>).res

contains(n, topic) == match_topic(n, topic)

\* print_trie_node leaves one stack entry per leaf below the node and one more
\* per child that has both a subscription and children.
RECURSIVE print_trie_node(_, _)
RECURSIVE print_trie_children(_, _)
print_trie_children(n, kids) ==
    IF kids = {} THEN 0
    ELSE LET v == CHOOSE x \in kids : TRUE
         IN  (IF has_subscription(n, v) /\ has_children(n, v) THEN 1 ELSE 0)
             + print_trie_node(n, v) + print_trie_children(n, kids \ {v})

print_trie_node(n, p) ==
    IF ~has_children(n, p) THEN 1 ELSE print_trie_children(n, Children(n, p))

print_trie_nodes(n) == IF has_children(n, Root) THEN print_trie_node(n, Root) ELSE 0

number_of_entries(n) == print_trie_nodes(n)

(***************************************************************************)
(* The TopicMatcher, one call at a time.                                   *)
(***************************************************************************)
NoThread == "none"
Threads == {"t1", "t2"}

IdleThread == [pc |-> "idle", topic |-> <<>>, i |-> 0, at |-> <<>>]

LockFree == [writer |-> NoThread, readers |-> {}]

NoCall == [op |-> "new", topic |-> <<>>, result |-> "Ok", matched |-> FALSE, undo |-> FALSE]

NodeCount(n) == Cardinality(DOMAIN n) - 1

TrieInit ==
    /\ nodes = EmptyTrie
    /\ subs = {}
    /\ last = NoCall
    /\ pre = EmptyTrie
    /\ pre2 = EmptyTrie

LockIdle ==
    /\ lock = LockFree
    /\ thr = [t \in Threads |-> IdleThread]
    /\ committed = EmptyTrie

\* SyncQueue::new, and no thread in a call on the queue.
Producers == {"p1", "p2"}
Consumers == {"c1", "c2"}
QThreads == Producers \cup Consumers

SyncQueue_new == [data |-> <<>>, closed |-> FALSE, mutex |-> NoThread, cv |-> {}]

IdleQThread == [pc |-> "idle", n |-> 0, closed |-> FALSE, ret |-> "none", v |-> 0, at |-> 0]

QueueIdle ==
    /\ queue = SyncQueue_new
    /\ qthr = [t \in QThreads |-> IdleQThread]
    /\ pushed = <<>>
    /\ popped = <<>>

CodecIdle ==
    /\ overflow_checks = FALSE
    /\ msg = <<>>
    /\ wire = <<>>
    /\ out = <<>>
    /\ cpc = "idle"

Init == TrieInit /\ LockIdle /\ CodecIdle /\ QueueIdle

\* subscribe with the insert done whatever the validation says.
SubscribeInsertAlways(f) ==
    LET result == validate_subscribe_topic(f)
        after == insert(nodes, f)
    IN  /\ NodeCount(after) <= MaxNodes
        /\ nodes' = after
        /\ subs' = IF result = "Ok" THEN subs \cup {f} ELSE subs
        /\ last' = [op |-> "subscribe", topic |-> f, result |-> result,
                     matched |-> FALSE, undo |-> FALSE]
        /\ pre' = nodes
        /\ pre2' = nodes
        /\ UNCHANGED <<lockVars, codecVars, queueVars>>

\* TopicMatcher::subscribe: validate, insert when valid.
Subscribe(f) ==
    LET result == validate_subscribe_topic(f)
        after == IF result = "Ok" THEN insert(nodes, f) ELSE nodes
    IN  /\ NodeCount(after) <= MaxNodes
        /\ nodes' = after
        /\ subs' = IF result = "Ok" THEN subs \cup {f} ELSE subs
        /\ last' = [op |-> "subscribe", topic |-> f, result |-> result,
                     matched |-> FALSE, undo |-> FALSE]
        /\ pre' = nodes
        /\ pre2' = nodes
        /\ UNCHANGED <<lockVars, codecVars, queueVars>>

\* TopicMatcher::unsubscribe: delete, without validation.
Unsubscribe(f) ==
    /\ nodes' = delete(nodes, f)
    /\ subs' = subs \ {f}
    /\ last' = [op |-> "unsubscribe", topic |-> f, result |-> "Ok", matched |-> FALSE,
                 undo |-> last.op = "subscribe" /\ last.topic = f /\ last.result = "Ok"]
    /\ pre' = nodes
    /\ pre2' = IF last.op = "subscribe" /\ last.topic = f /\ last.result = "Ok"
               THEN pre ELSE nodes
    /\ UNCHANGED <<lockVars, codecVars, queueVars>>

\* TopicMatcher::match_topic.
MatchTopic(t) ==
    /\ last' = [op |-> "match", topic |-> t, result |-> "Ok",
                 matched |-> contains(nodes, t), undo |-> FALSE]
    /\ pre' = nodes
    /\ pre2' = nodes
    /\ UNCHANGED <<nodes, subs, lockVars, codecVars, queueVars>>

Next ==
    \/ \E f \in Topics : Subscribe(f)
    \/ \E f \in Topics : Unsubscribe(f)
    \/ \E t \in Topics : MatchTopic(t)

Spec == Init /\ [][Next]_vars

(***************************************************************************)
(* The MQTT filter grammar, as the yardstick for the trie's answers.       *)
(***************************************************************************)
\* fs are the levels of a filter, ts the levels of a topic name.
RECURSIVE LevelsMatch(_, _)
LevelsMatch(fs, ts) ==
    IF fs = <<>> THEN ts = <<>>
    ELSE IF Head(fs) = <<"#">> THEN TRUE
    ELSE IF ts = <<>> THEN FALSE
    ELSE IF Head(fs) = <<"+">> \/ Head(fs) = Head(ts) THEN LevelsMatch(Tail(fs), Tail(ts))
    ELSE FALSE

FilterMatches(f, t) == LevelsMatch(Split(f), Split(t))

PublishTopics == {t \in Topics : validate_publish_topic(t) = "Ok"}

(***************************************************************************)
(* Claims about the trie.                                                  *)
(***************************************************************************)
\* C1: match_topic(t) of a valid publish topic t is true if and only if some
\* currently subscribed filter matches t under the MQTT filter grammar.
C1_MatchIffSomeFilterMatches ==
    (last.op = "match" /\ validate_publish_topic(last.topic) = "Ok")
        => (last.matched <=> \E f \in subs : FilterMatches(f, last.topic))

\* C6: after subscribe(f) returns Ok the node at the end of f's segments
\* exists and is marked subscribed, also when it existed before the call.
C6_SubscribeMarksTerminalNode ==
    (last.op = "subscribe" /\ last.result = "Ok")
        => (Split(last.topic) \in DOMAIN nodes /\ has_subscription(nodes, Split(last.topic)))

\* The branch of a filter is the subtree below the root that its first
\* segment names.
BranchExists(n, f) == has_child(n, Root, Split(f)[1])

\* C7: subscribe(f) of a filter whose branch did not exist, followed by
\* unsubscribe(f), brings number_of_entries() back to its value before the
\* subscribe, and no topic matches that did not match before.
C7_SubscribeUnsubscribeRestoresCount ==
    (last.op = "unsubscribe" /\ last.undo /\ ~BranchExists(pre2, last.topic))
        => /\ number_of_entries(nodes) = number_of_entries(pre2)
           /\ \A t \in PublishTopics : contains(nodes, t) => contains(pre2, t)

\* C8: after an unsubscribe no node other than the root is both childless and
\* unsubscribed.
C8_NoDeadLeafAfterUnsubscribe ==
    last.op = "unsubscribe"
        => \A p \in DOMAIN nodes \ {Root} : has_children(nodes, p) \/ has_subscription(nodes, p)

(***************************************************************************)
(* The TopicMatcher shared by threads: every call takes the RwLock first   *)
(* and drops it when it returns. The steps of a call are the places where  *)
(* another thread could run.                                               *)
(***************************************************************************)
\* The filters and topics the threads use.
LockTopics == {t \in Topics : \A i \in 1..Len(t) : t[i] \in {"a", "+", "/"}}

\* RwLock::write returns when no thread holds the lock.
CanWrite(l) == l.writer = NoThread /\ l.readers = {}

\* A read() that does not wait for the writer.
CanReadAnyTime(l) == l.readers \subseteq Threads

\* RwLock::read returns when no thread holds the lock for writing.
CanRead(l) == l.writer = NoThread

LockInit ==
    /\ nodes = EmptyTrie
    /\ subs = {}
    /\ last = NoCall
    /\ pre = EmptyTrie
    /\ pre2 = EmptyTrie
    /\ LockIdle
    /\ QueueIdle
    /\ CodecIdle

\* subscribe: let trie = self.trie.write().unwrap()
SubscribeAcquire(t, f) ==
    /\ thr[t].pc = "idle"
    /\ CanWrite(lock)
    /\ NodeCount(insert(nodes, f)) <= MaxNodes
    /\ lock' = [lock EXCEPT !.writer = t]
    /\ thr' = [thr EXCEPT ![t] = [IdleThread EXCEPT !.pc = "validate", !.topic = f]]
    /\ UNCHANGED <<nodes, committed, subs, last, pre, pre2, codecVars, queueVars>>

\* subscribe: validate_subscribe_topic(topic)
SubscribeValidate(t) ==
    /\ thr[t].pc = "validate"
    /\ thr' = [thr EXCEPT ![t].pc =
                 IF validate_subscribe_topic(thr[t].topic) = "Ok" THEN "insert" ELSE "release",
               ![t].i = 1]
    /\ UNCHANGED <<nodes, lock, committed, subs, last, pre, pre2, codecVars, queueVars>>

\* Trie::insert: one turn of its loop.
InsertStep(t) ==
    /\ thr[t].pc = "insert"
    /\ LET parts == Split(thr[t].topic)
       IN  IF thr[t].i <= Len(parts)
           THEN /\ nodes' = InsertPart(nodes, parts, thr[t].i)
                /\ thr' = [thr EXCEPT ![t].i = thr[t].i + 1]
           ELSE /\ nodes' = nodes
                /\ thr' = [thr EXCEPT ![t].pc = "release"]
    /\ UNCHANGED <<lock, committed, subs, last, pre, pre2, codecVars, queueVars>>

\* unsubscribe: let trie = self.trie.write().unwrap()
UnsubscribeAcquire(t, f) ==
    /\ thr[t].pc = "idle"
    /\ CanWrite(lock)
    /\ lock' = [lock EXCEPT !.writer = t]
    /\ thr' = [thr EXCEPT ![t] = [IdleThread EXCEPT !.pc = "find", !.topic = f]]
    /\ UNCHANGED <<nodes, committed, subs, last, pre, pre2, codecVars, queueVars>>

\* Trie::delete: the walk down to the node.
DeleteFind(t) ==
    /\ thr[t].pc = "find"
    /\ thr' = [thr EXCEPT ![t].pc = IF DeleteFinds(nodes, thr[t].topic) THEN "detach" ELSE "release",
                          ![t].at = Split(thr[t].topic)]
    /\ UNCHANGED <<nodes, lock, committed, subs, last, pre, pre2, codecVars, queueVars>>

\* Trie::delete: one call of detach_child.
DetachStep(t) ==
    /\ thr[t].pc = "detach"
    /\ LET r == DetachOne(nodes, thr[t].at)
       IN  /\ nodes' = r.n
           /\ thr' = IF r.next = <<>>
                     THEN [thr EXCEPT ![t].pc = "release"]
                     ELSE [thr EXCEPT ![t].at = r.next[1]]
    /\ UNCHANGED <<lock, committed, subs, last, pre, pre2, codecVars, queueVars>>

\* The write guard is dropped when subscribe or unsubscribe returns.
WriteRelease(t) ==
    /\ thr[t].pc = "release"
    /\ lock' = [lock EXCEPT !.writer = NoThread]
    /\ thr' = [thr EXCEPT ![t] = IdleThread]
    /\ committed' = nodes
    /\ UNCHANGED <<nodes, subs, last, pre, pre2, codecVars, queueVars>>

\* match_topic: let trie = self.trie.read().unwrap()
MatchAcquire(t, f) ==
    /\ thr[t].pc = "idle"
    /\ CanRead(lock)
    /\ lock' = [lock EXCEPT !.readers = @ \cup {t}]
    /\ thr' = [thr EXCEPT ![t] = [IdleThread EXCEPT !.pc = "match", !.topic = f]]
    /\ UNCHANGED <<nodes, committed, subs, last, pre, pre2, codecVars, queueVars>>

\* match_topic: trie.contains(topic), then the read guard is dropped.
MatchReturn(t) ==
    /\ thr[t].pc = "match"
    /\ contains(nodes, thr[t].topic) \in BOOLEAN
    /\ lock' = [lock EXCEPT !.readers = @ \ {t}]
    /\ thr' = [thr EXCEPT ![t] = IdleThread]
    /\ UNCHANGED <<nodes, committed, subs, last, pre, pre2, codecVars, queueVars>>

LockNext ==
    \/ \E t \in Threads, f \in LockTopics : SubscribeAcquire(t, f)
    \/ \E t \in Threads : SubscribeValidate(t)
    \/ \E t \in Threads : InsertStep(t)
    \/ \E t \in Threads, f \in LockTopics : UnsubscribeAcquire(t, f)
    \/ \E t \in Threads : DeleteFind(t)
    \/ \E t \in Threads : DetachStep(t)
    \/ \E t \in Threads : WriteRelease(t)
    \/ \E t \in Threads, f \in LockTopics : MatchAcquire(t, f)
    \/ \E t \in Threads : MatchReturn(t)

SpecLock == LockInit /\ [][LockNext]_vars

\* The threads inside subscribe or unsubscribe, past the write(), and those
\* inside match_topic, past the read().
Writing == {t \in Threads : thr[t].pc \in {"validate", "insert", "find", "detach", "release"}}
Matching == {t \in Threads : thr[t].pc = "match"}

\* C9: a subscribe or unsubscribe holds the lock alone, so a match_topic that
\* holds it sees the trie as the last whole mutation left it.
C9_WritersExcludeEveryone ==
    /\ Cardinality(Writing) <= 1
    /\ Writing # {} => Matching = {}
    /\ \A t \in Matching :
          /\ nodes = committed
          /\ contains(nodes, thr[t].topic) = contains(committed, thr[t].topic)

\* Two match_topic calls hold the lock together, on a trie that has a filter.
C9_TwoMatchersTogether ==
    /\ Matching = Threads
    /\ nodes # EmptyTrie

(***************************************************************************)
(* The primitive codec. A byte is a number in 0..255, a buffer a sequence  *)
(* of bytes; pos is the (1-based) place of the next byte the cursor reads. *)
(* A read returns [ok, v, pos, err], a write [ok, v, err] with v the bytes *)
(* it appended. A String is kept as its UTF-8 bytes.                       *)
(***************************************************************************)
MAX_VARUINT32 == 268435455

U16 == 65536

\* A u32 is kept as the integer of -2^31 .. 2^31 - 1 that is congruent to it
\* modulo 2^32, so that a value of 2^31 and above is a negative number: the
\* wrapping difference of two u32 is their difference, and the order of u32
\* is u32_gt.
u32_gt(a, b) == IF (a < 0) = (b < 0) THEN a > b ELSE a < 0

wrapping_sub(a, b) == a - b

Ok(v, pos) == [ok |-> TRUE, v |-> v, pos |-> pos, err |-> "none"]

Err(e) == [ok |-> FALSE, v |-> <<>>, pos |-> 0, err |-> e]

Written(bytes) == [ok |-> TRUE, v |-> bytes, err |-> "none"]

WriteErr(e) == [ok |-> FALSE, v |-> <<>>, err |-> e]

\* value & (1 << k) != 0
Bit(value, k) == (value \div (2 ^ k)) % 2 = 1

\* Reader::read_exact and read_exact_buf: n bytes or MalformedPacket.
read_exact(buf, pos, n) ==
    IF pos + n - 1 <= Len(buf)
    THEN Ok(SubSeq(buf, pos, pos + n - 1), pos + n)
    ELSE Err("MalformedPacket")

\* The ? of the code: an error returns at once, a value goes on to rest.
Try(r, rest(_)) == IF r.ok THEN rest(r) ELSE r

read_u8(buf, pos) == Try(read_exact(buf, pos, 1), LAMBDA r : Ok(r.v[1], r.pos))

read_bool(buf, pos) == Try(read_u8(buf, pos), LAMBDA r : Ok(r.v # 0, r.pos))

read_u16(buf, pos) ==
    Try(read_exact(buf, pos, 2), LAMBDA r : Ok(r.v[1] * 256 + r.v[2], r.pos))

read_u32(buf, pos) ==
    Try(read_exact(buf, pos, 4),
        LAMBDA r : Ok((IF r.v[1] >= 128 THEN r.v[1] - 256 ELSE r.v[1]) * 16777216
                      + r.v[2] * 65536 + r.v[3] * 256 + r.v[4], r.pos))

\* A loop that stops on the count of bytes only, after the fifth is read.
RECURSIVE read_varuint32_loop_by_count(_, _, _, _, _)
read_varuint32_loop_by_count(buf, pos, value, multiplier, consumed) ==
    Try(read_u8(buf, pos),
        LAMBDA r :
            IF consumed + 1 > 4 THEN Err("InvalidVarUint32")
            ELSE IF r.v < 128 THEN Ok(value + (r.v % 128) * multiplier, r.pos)
            ELSE read_varuint32_loop_by_count(buf, r.pos, value + (r.v % 128) * multiplier,
                                              multiplier * 128, consumed + 1))

\* The loop of read_varuint32, entered with value, multiplier and consumed.
RECURSIVE read_varuint32_loop(_, _, _, _, _)
read_varuint32_loop(buf, pos, value, multiplier, consumed) ==
    Try(read_u8(buf, pos),
        LAMBDA r :
            IF consumed + 1 > 4 THEN Err("InvalidVarUint32")
            ELSE IF r.v < 128 THEN Ok(value + (r.v % 128) * multiplier, r.pos)
            ELSE IF multiplier * 128 > 128 * 128 * 128 THEN Err("InvalidVarUint32Length")
            ELSE read_varuint32_loop(buf, r.pos, value + (r.v % 128) * multiplier,
                                     multiplier * 128, consumed + 1))

read_varuint32(buf, pos) == read_varuint32_loop(buf, pos, 0, 1, 0)

read_binary(buf, pos) ==
    Try(read_u16(buf, pos), LAMBDA size : read_exact(buf, size.pos, size.v))

\* std::str::from_utf8: the code points of the bytes from index i on, or
\* <<-1>> when the bytes are no UTF-8.
Cont(b) == b >= 128 /\ b <= 191

RECURSIVE from_utf8(_, _)
from_utf8(b, i) ==
    IF i > Len(b) THEN <<>>
    ELSE LET b1 == b[i]
             left == Len(b) - i
             one(cp, n) == LET rest == from_utf8(b, i + n)
                           IN  IF rest = <<-1>> THEN rest ELSE <<cp>> \o rest
         IN  IF b1 < 128 THEN one(b1, 1)
             ELSE IF b1 >= 194 /\ b1 <= 223 /\ left >= 1 /\ Cont(b[i + 1])
                  THEN one((b1 - 192) * 64 + (b[i + 1] - 128), 2)
             ELSE IF b1 >= 224 /\ b1 <= 239 /\ left >= 2 /\ Cont(b[i + 1]) /\ Cont(b[i + 2])
                     /\ (b1 = 224 => b[i + 1] >= 160) /\ (b1 = 237 => b[i + 1] <= 159)
                  THEN one((b1 - 224) * 4096 + (b[i + 1] - 128) * 64 + (b[i + 2] - 128), 3)
             ELSE IF b1 >= 240 /\ b1 <= 244 /\ left >= 3
                     /\ Cont(b[i + 1]) /\ Cont(b[i + 2]) /\ Cont(b[i + 3])
                     /\ (b1 = 240 => b[i + 1] >= 144) /\ (b1 = 244 => b[i + 1] <= 143)
                  THEN one((b1 - 240) * 262144 + (b[i + 1] - 128) * 4096
                           + (b[i + 2] - 128) * 64 + (b[i + 3] - 128), 4)
             ELSE <<-1>>

\* A validation that looks at the first character only.
validate_utf8_chars_first(cps) ==
    \A k \in 1..(IF Len(cps) > 0 THEN 1 ELSE 0) :
        ~(cps[k] >= 0 /\ cps[k] <= 31) /\ ~(cps[k] >= 127 /\ cps[k] <= 159)

\* validate_utf8_chars over the code points of the string.
validate_utf8_chars(cps) ==
    \A k \in 1..Len(cps) : ~(cps[k] >= 0 /\ cps[k] <= 31) /\ ~(cps[k] >= 127 /\ cps[k] <= 159)

utf8_checked(data, cps) ==
    IF cps = <<-1>> THEN Err("InvalidUTF8String")
    ELSE IF validate_utf8_chars(cps) THEN data
    ELSE Err("InvalidUTF8String")

read_utf8_string(buf, pos) ==
    Try(read_binary(buf, pos), LAMBDA data : utf8_checked(data, from_utf8(data.v, 1)))

read_key_value_pair(buf, pos) ==
    Try(read_utf8_string(buf, pos),
        LAMBDA key : Try(read_utf8_string(buf, key.pos),
                         LAMBDA value : Ok(<<key.v, value.v>>, value.pos)))

write_bool(value) == Written(<<IF value THEN 1 ELSE 0>>)

write_u8(value) == Written(<<value>>)

write_u16(value) == Written(<<(value \div 256) % 256, value % 256>>)

write_u32(value) ==
    Written(<<(value \div 16777216) % 256, (value \div 65536) % 256,
              (value \div 256) % 256, value % 256>>)

\* A loop that sets the continuation bit on no byte.
RECURSIVE write_varuint32_loop_no_bit(_)
write_varuint32_loop_no_bit(copied) ==
    IF copied \div 128 > 0
    THEN <<copied % 128>> \o write_varuint32_loop_no_bit(copied \div 128)
    ELSE <<copied % 128>>

\* The loop of write_varuint32 on what is left of the value.
RECURSIVE write_varuint32_loop(_)
write_varuint32_loop(copied) ==
    IF copied \div 128 > 0
    THEN <<(copied % 128) + 128>> \o write_varuint32_loop(copied \div 128)
    ELSE <<copied % 128>>

\* A write without the check against MAX_VARUINT32.
write_varuint32_unchecked(value) == Written(write_varuint32_loop(value))

write_varuint32(value) ==
    IF u32_gt(value, MAX_VARUINT32) THEN WriteErr("InvalidVarUint32")
    ELSE Written(write_varuint32_loop(value))

\* value.len() as u16, then the content.
write_binary(value) == Written(write_u16(Len(value) % U16).v \o value)

write_utf8_string(value) == Written(write_u16(Len(value) % U16).v \o value)

\* A size that counts bytes of 8 bits.
RECURSIVE VarUint32Size_loop_by_256(_)
VarUint32Size_loop_by_256(copied) ==
    IF copied \div 256 = 0 THEN 1 ELSE 1 + VarUint32Size_loop_by_256(copied \div 256)

RECURSIVE VarUint32Size_loop(_)
VarUint32Size_loop(copied) ==
    IF copied \div 128 = 0 THEN 1 ELSE 1 + VarUint32Size_loop(copied \div 128)

VarUint32Size_size(value) == VarUint32Size_loop(value)

UTF8String_size(value) == Len(value) + 2

BinaryData_size(value) == Len(value) + 2

(***************************************************************************)
(* The property framework. A property structure is a record of its slots;  *)
(* an Option is <<>> (None) or <<v>> (Some(v)), a String or Vec its        *)
(* sequence, so that Default::default() is <<>> in every slot. The table   *)
(* of a structure lists what #[derive(IOOperations)] reads off its fields: *)
(* the field, the PropertyID and the type that select the generated code.  *)
(***************************************************************************)
PropertyIDs == {1, 2, 3, 8, 9, 11, 17, 18, 19, 21, 22, 23, 24, 25, 26, 28, 31,
                33, 34, 35, 36, 37, 38, 39, 40, 41, 42}

ConnectTable == <<
    [field |-> "session_expiry_interval", id |-> 17, ty |-> "u32"],
    [field |-> "receive_maximum", id |-> 33, ty |-> "u16"],
    [field |-> "maximum_packet_size", id |-> 39, ty |-> "u32"],
    [field |-> "topic_alias_maximum", id |-> 34, ty |-> "u16"],
    [field |-> "request_problem_info", id |-> 23, ty |-> "bool"],
    [field |-> "request_response_info", id |-> 25, ty |-> "bool"],
    [field |-> "user_property", id |-> 38, ty |-> "KeyValuePair"],
    [field |-> "authentication_method", id |-> 21, ty |-> "String"],
    [field |-> "authentication_data", id |-> 22, ty |-> "Binary"] >>

WillTable == <<
    [field |-> "will_delay_interval", id |-> 24, ty |-> "u32"],
    [field |-> "payload_format_indicator", id |-> 1, ty |-> "bool"],
    [field |-> "message_expiry_interval", id |-> 2, ty |-> "u32"],
    [field |-> "content_type", id |-> 3, ty |-> "String"],
    [field |-> "response_topic", id |-> 8, ty |-> "String"],
    [field |-> "correlation_data", id |-> 9, ty |-> "Binary"],
    [field |-> "user_property", id |-> 38, ty |-> "KeyValuePair"] >>

Fields(table) == {table[k].field : k \in 1..Len(table)}

\* #[derive(Default)]
DefaultProps(table) == [f \in Fields(table) |-> <<>>]

\* PropertySize::from_utf8_string_pair: 4 + key + value for every pair.
RECURSIVE from_utf8_string_pair(_)
from_utf8_string_pair(arr) ==
    IF arr = <<>> THEN 0
    ELSE 4 + Len(Head(arr)[1]) + Len(Head(arr)[2]) + from_utf8_string_pair(Tail(arr))

\* PropertySize::from_<ty>(&value)
PropertySize(ty, value) ==
    IF ty = "bool" THEN (IF value # <<>> THEN 1 + 1 ELSE 0)
    ELSE IF ty = "u16" THEN (IF value # <<>> THEN 2 + 1 ELSE 0)
    ELSE IF ty = "u32" THEN (IF value # <<>> THEN 4 + 1 ELSE 0)
    ELSE IF ty \in {"String", "Binary"} THEN (IF value # <<>> THEN Len(value) + 3 ELSE 0)
    ELSE from_utf8_string_pair(value)

\* PropertyReader::to_<ty>(r), and read_key_value_pair for the pairs.
PropertyReader(ty, buf, pos) ==
    IF ty = "bool" THEN Try(read_bool(buf, pos), LAMBDA r : Ok(<<r.v>>, r.pos))
    ELSE IF ty = "u16" THEN Try(read_u16(buf, pos), LAMBDA r : Ok(<<r.v>>, r.pos))
    ELSE IF ty = "u32" THEN Try(read_u32(buf, pos), LAMBDA r : Ok(<<r.v>>, r.pos))
    ELSE IF ty = "String" THEN read_utf8_string(buf, pos)
    ELSE IF ty = "Binary" THEN read_binary(buf, pos)
    ELSE read_key_value_pair(buf, pos)

\* from_utf8_pair: the id and the two strings, for every pair.
RECURSIVE from_utf8_pair(_, _)
from_utf8_pair(id, values) ==
    IF values = <<>> THEN <<>>
    ELSE write_varuint32(id).v \o write_utf8_string(Head(values)[1]).v
         \o write_utf8_string(Head(values)[2]).v \o from_utf8_pair(id, Tail(values))

\* PropertyWriter::from_<ty>(w, id, &value): nothing for None or empty.
PropertyWriter(ty, id, value) ==
    IF value = <<>> THEN <<>>
    ELSE IF ty = "bool" THEN write_varuint32(id).v \o write_bool(value[1]).v
    ELSE IF ty = "u16" THEN write_varuint32(id).v \o write_u16(value[1]).v
    ELSE IF ty = "u32" THEN write_varuint32(id).v \o write_u32(value[1]).v
    ELSE IF ty = "String" THEN write_varuint32(id).v \o write_utf8_string(value).v
    ELSE IF ty = "Binary" THEN write_varuint32(id).v \o write_binary(value).v
    ELSE from_utf8_pair(id, value)

\* A match whose arms fall through to the first field.
TableRowAny(table, id) ==
    IF \E k \in 1..Len(table) : table[k].id = id
    THEN CHOOSE k \in 1..Len(table) : table[k].id = id
    ELSE 1

\* The arm of the generated match for the property id, or 0.
TableRow(table, id) ==
    IF \E k \in 1..Len(table) : table[k].id = id
    THEN CHOOSE k \in 1..Len(table) : table[k].id = id
    ELSE 0

\* The while loop of the generated read. oc is the build's overflow checking:
\* `property_len -= size` below zero panics with it and wraps without.
\* The arm for an id at hand: the field is read and set (a pair is pushed),
\* and its size taken off property_len.
RECURSIVE PropsReadLoop(_, _, _, _, _, _)
PropsReadArm(table, buf, props, property_len, oc, row, r) ==
    LET props2 == [props EXCEPT ![row.field] =
                      IF row.ty = "KeyValuePair" THEN Append(props[row.field], r.v) ELSE r.v]
        size == PropertySize(row.ty, props2[row.field])
    IN  IF u32_gt(size, property_len) /\ oc THEN Err("Panic")
        ELSE PropsReadLoop(table, buf, r.pos, props2, wrapping_sub(property_len, size), oc)

PropsReadLoop(table, buf, pos, props, property_len, oc) ==
    IF property_len = 0 THEN Ok(<<props>>, pos)
    ELSE Try(read_varuint32(buf, pos),
             LAMBDA id :
                 IF id.v \notin PropertyIDs THEN Err("InvalidPropertyID")
                 ELSE IF TableRow(table, id.v) = 0 THEN Err("InvalidPropertyID")
                 ELSE Try(PropertyReader(table[TableRow(table, id.v)].ty, buf, id.pos),
                          LAMBDA r : PropsReadArm(table, buf, props, property_len, oc,
                                                  table[TableRow(table, id.v)], r)))

\* The generated read: Ok(None) for a zero length, else the loop.
PropsRead(table, buf, pos, oc) ==
    Try(read_varuint32(buf, pos),
        LAMBDA property_len :
            IF property_len.v = 0 THEN Ok(<<>>, property_len.pos)
            ELSE PropsReadLoop(table, buf, property_len.pos, DefaultProps(table),
                               property_len.v, oc))

\* The generated write: every field's writer in the order of the fields.
RECURSIVE PropsWriteFrom(_, _, _)
PropsWriteFrom(table, p, k) ==
    IF k > Len(table) THEN <<>>
    ELSE PropertyWriter(table[k].ty, table[k].id, p[table[k].field])
         \o PropsWriteFrom(table, p, k + 1)

PropsWrite(table, p) == PropsWriteFrom(table, p, 1)

\* The generated len: every field's size, summed.
RECURSIVE PropsLenFrom(_, _, _)
PropsLenFrom(table, p, k) ==
    IF k > Len(table) THEN 0
    ELSE PropertySize(table[k].ty, p[table[k].field]) + PropsLenFrom(table, p, k + 1)

PropsLen(table, p) == PropsLenFrom(table, p, 1)

(***************************************************************************)
(* The CONNECT packet. A Connect and a Will are records of their fields.   *)
(***************************************************************************)
PacketType_CONNECT == 1

\* Will::read: QoS and retain from the connect flags, then properties, topic
\* and payload.
Will_read(buf, pos, flag, oc) ==
    Try(PropsRead(WillTable, buf, pos, oc),
        LAMBDA properties :
            Try(read_utf8_string(buf, properties.pos),
                LAMBDA topic :
                    Try(read_binary(buf, topic.pos),
                        LAMBDA payload : Ok([qos |-> (flag \div 8) % 4,
                                             retain |-> Bit(flag, 5),
                                             properties |-> properties.v,
                                             topic |-> topic.v,
                                             payload |-> payload.v], payload.pos))))

\* A validation that looks at the will QoS before the reserved bit.
validate_connect_flag_qos_first(flag) ==
    LET will_flag == Bit(flag, 2)
        will_qos == (flag \div 8) % 4
        will_retain == Bit(flag, 5)
    IN  IF (will_flag /\ will_qos > 2) \/ (~will_flag /\ will_qos # 0) THEN "InvalidWillQos"
        ELSE IF Bit(flag, 0) THEN "InvalidConnectFlags"
        ELSE IF ~will_flag /\ will_retain THEN "InvalidWillRetain"
        ELSE "Ok"

validate_connect_flag(flag) ==
    LET will_flag == Bit(flag, 2)
        will_qos == (flag \div 8) % 4
        will_retain == Bit(flag, 5)
    IN  IF Bit(flag, 0) THEN "InvalidConnectFlags"
        ELSE IF (will_flag /\ will_qos > 2) \/ (~will_flag /\ will_qos # 0) THEN "InvalidWillQos"
        ELSE IF ~will_flag /\ will_retain THEN "InvalidWillRetain"
        ELSE "Ok"

\* #[derive(Default)] for Connect, with the name and version Connect::read sets.
DefaultConnect ==
    [protocol_name |-> "MQTT", protocol_version |-> 5, clean_start |-> FALSE,
     keep_alive |-> 0, will |-> <<>>, properties |-> <<>>, client_id |-> <<>>,
     user_name |-> <<>>, password |-> <<>>]

\* Connect::read after the will: the user name and the password, each if its
\* flag is set.
Connect_read_password(buf, pos, connect, flag) ==
    IF Bit(flag, 6)
    THEN Try(read_binary(buf, pos),
             LAMBDA password : Ok([connect EXCEPT !.password = password.v], password.pos))
    ELSE Ok(connect, pos)

Connect_read_user_name(buf, pos, connect, flag) ==
    Try(IF Bit(flag, 7)
        THEN Try(read_utf8_string(buf, pos),
                 LAMBDA user_name : Ok([connect EXCEPT !.user_name = user_name.v],
                                       user_name.pos))
        ELSE Ok(connect, pos),
        LAMBDA c : Connect_read_password(buf, c.pos, c.v, flag))

\* ... the will, if its flag is set.
Connect_read_will(buf, pos, connect, flag, oc) ==
    Try(IF Bit(flag, 2)
        THEN Try(Will_read(buf, pos, flag, oc),
                 LAMBDA will : Ok([connect EXCEPT !.will = <<will.v>>], will.pos))
        ELSE Ok(connect, pos),
        LAMBDA c : Connect_read_user_name(buf, c.pos, c.v, flag))

\* Connect::read from the keep alive on.
Connect_read_keep_alive(buf, pos, flag, oc) ==
    Try(read_u16(buf, pos),
        LAMBDA keep_alive :
            Try(PropsRead(ConnectTable, buf, keep_alive.pos, oc),
                LAMBDA properties :
                    Try(read_utf8_string(buf, properties.pos),
                        LAMBDA client_id :
                            Connect_read_will(buf, client_id.pos,
                                [DefaultConnect EXCEPT
                                    !.clean_start = Bit(flag, 1),
                                    !.keep_alive = keep_alive.v,
                                    !.properties = properties.v,
                                    !.client_id = client_id.v],
                                flag, oc))))

\* Connect::read from the connect flags on.
Connect_read_flags(buf, pos, oc) ==
    Try(read_u8(buf, pos),
        LAMBDA connect_flag :
            IF validate_connect_flag(connect_flag.v) # "Ok"
            THEN Err(validate_connect_flag(connect_flag.v))
            ELSE Connect_read_keep_alive(buf, connect_flag.pos, connect_flag.v, oc))

Connect_read(buf, pos, oc) ==
    Try(read_exact(buf, pos, 6),
        LAMBDA pname :
            IF pname.v # <<0, 4, 77, 81, 84, 84>> THEN Err("InvalidProtocolName")
            ELSE Try(read_u8(buf, pname.pos),
                     LAMBDA protocol_version :
                         IF protocol_version.v # 5 THEN Err("InvalidProtocolVersion")
                         ELSE Connect_read_flags(buf, protocol_version.pos, oc)))

\* FixedHeaderReader::read
FixedHeaderReader_read(buf, pos) ==
    Try(read_u8(buf, pos),
        LAMBDA byte0 : Try(read_varuint32(buf, byte0.pos),
                           LAMBDA remaining_len : Ok(<<byte0.v, remaining_len.v>>,
                                                     remaining_len.pos)))

\* A packet off the wire: the fixed header, then the CONNECT.
ReadPacket(buf, oc) ==
    Try(FixedHeaderReader_read(buf, 1), LAMBDA hdr : Connect_read(buf, hdr.pos, oc))

will_property_length(connect) ==
    IF connect.will # <<>> /\ connect.will[1].properties # <<>>
    THEN PropsLen(WillTable, connect.will[1].properties[1])
    ELSE 0

property_length(connect) ==
    IF connect.properties # <<>> THEN PropsLen(ConnectTable, connect.properties[1]) ELSE 0

\* The remaining length Connect::write computes.
Connect_remaining_len(connect) ==
    LET property_len == property_length(connect)
        will_property_len == will_property_length(connect)
    IN  10 + property_len + VarUint32Size_size(property_len) + UTF8String_size(connect.client_id)
        + (IF connect.will # <<>>
            THEN will_property_len + VarUint32Size_size(will_property_len)
                 + UTF8String_size(connect.will[1].topic)
                 + BinaryData_size(connect.will[1].payload)
            ELSE 0)
         + (IF Len(connect.user_name) > 0 THEN UTF8String_size(connect.user_name) ELSE 0)
         + (IF Len(connect.password) > 0 THEN BinaryData_size(connect.password) ELSE 0)

\* The connect flags Connect::write derives.
Connect_flags(connect) ==
    (IF connect.clean_start THEN 2 ELSE 0)
    + (IF connect.will # <<>>
       THEN 4 + ((connect.will[1].qos * 8) % 256) + (IF connect.will[1].retain THEN 32 ELSE 0)
       ELSE 0)
    + (IF Len(connect.user_name) > 0 THEN 128 ELSE 0)
    + (IF Len(connect.password) > 0 THEN 64 ELSE 0)

\* What Connect::write writes after the fixed header.
Connect_body(connect) ==
    write_utf8_string(<<77, 81, 84, 84>>).v
    \o write_u8(5).v
    \o write_u8(Connect_flags(connect)).v
    \o write_u16(connect.keep_alive).v
    \o write_varuint32(property_length(connect)).v
    \o (IF connect.properties # <<>> THEN PropsWrite(ConnectTable, connect.properties[1]) ELSE <<>>)
    \o write_utf8_string(connect.client_id).v
    \o (IF connect.will # <<>>
        THEN write_varuint32(will_property_length(connect)).v
             \o (IF connect.will[1].properties # <<>>
                 THEN PropsWrite(WillTable, connect.will[1].properties[1]) ELSE <<>>)
             \o write_utf8_string(connect.will[1].topic).v
             \o write_binary(connect.will[1].payload).v
        ELSE <<>>)
    \o (IF Len(connect.user_name) > 0 THEN write_utf8_string(connect.user_name).v ELSE <<>>)
    \o (IF Len(connect.password) > 0 THEN write_binary(connect.password).v ELSE <<>>)

Connect_write(connect) ==
    LET remaining_len == Connect_remaining_len(connect)
    IN  IF ~write_varuint32(remaining_len).ok THEN write_varuint32(remaining_len)
        ELSE IF ~write_varuint32(property_length(connect)).ok
             THEN write_varuint32(property_length(connect))
        ELSE IF ~write_varuint32(will_property_length(connect)).ok
             THEN write_varuint32(will_property_length(connect))
        ELSE Written(write_u8((PacketType_CONNECT * 16) % 256).v
                     \o write_varuint32(remaining_len).v
                     \o Connect_body(connect))

(***************************************************************************)
(* The inputs of the codec: property structures and Connect messages to    *)
(* write, and packets as a peer sends them.                                *)
(***************************************************************************)
RECURSIVE SeqsUpTo(_, _)
SeqsUpTo(S, n) ==
    IF n = 0 THEN {<<>>}
    ELSE LET shorter == SeqsUpTo(S, n - 1)
         IN  shorter \cup {Append(q, x) : q \in {y \in shorter : Len(y) = n - 1}, x \in S}

\* Key/value pairs: ("", "") and ("a", "b").
PairPool == {<<<<>>, <<>>>>, <<<<97>>, <<98>>>>}

PairLists == SeqsUpTo(PairPool, MaxPairs)

OptionU32 == {<<>>, <<1024>>}
OptionU16 == {<<>>, <<10>>}
OptionBool == {<<>>, <<FALSE>>, <<TRUE>>}
StrPool == {<<>>, <<97>>, <<97, 47, 98>>}
BinPool == {<<>>, <<1, 2>>}

ConnectPropsPool ==
    [session_expiry_interval : OptionU32, receive_maximum : OptionU16,
     maximum_packet_size : OptionU32, topic_alias_maximum : OptionU16,
     request_problem_info : OptionBool, request_response_info : {<<>>, <<TRUE>>},
     user_property : PairLists, authentication_method : StrPool,
     authentication_data : BinPool]

WillPropsPool ==
    [will_delay_interval : OptionU32, payload_format_indicator : OptionBool,
     message_expiry_interval : OptionU32, content_type : StrPool,
     response_topic : {<<>>, <<97>>}, correlation_data : BinPool,
     user_property : PairLists]

PropsInputs ==
    {[kind |-> "connect", p |-> p] : p \in ConnectPropsPool}
    \cup {[kind |-> "will", p |-> p] : p \in WillPropsPool}

TableOf(kind) == IF kind = "connect" THEN ConnectTable ELSE WillTable

IsEmptyProps(p) == \A f \in DOMAIN p : p[f] = <<>>

\* The property structures of the composed messages: the slots of the test
\* packets, a string slot, and user properties.
MsgConnectProps ==
    {<<>>}
    \cup {<<[DefaultProps(ConnectTable) EXCEPT !.receive_maximum = <<10>>,
                                               !.maximum_packet_size = <<1024>>]>>,
          <<[DefaultProps(ConnectTable) EXCEPT !.authentication_method = <<97>>]>>}
    \cup {<<[DefaultProps(ConnectTable) EXCEPT !.user_property = l]>> :
             l \in PairLists \ {<<>>}}

MsgWills ==
    {<<>>}
    \cup {<<[qos |-> 1, retain |-> FALSE, properties |-> wp, topic |-> <<97, 47, 98>>,
             payload |-> <<87>>]>> :
             wp \in {<<>>,
                     <<[DefaultProps(WillTable) EXCEPT !.will_delay_interval = <<1024>>]>>,
                     <<[DefaultProps(WillTable) EXCEPT !.user_property =
                                                           <<<<<<97>>, <<98>>>>>>]>>}}
    \cup {<<[qos |-> 2, retain |-> TRUE, properties |-> <<>>, topic |-> <<97>>,
             payload |-> <<>>]>>}

Messages ==
    {[DefaultConnect EXCEPT !.clean_start = cs, !.keep_alive = ka, !.properties = cp,
                            !.will = w, !.client_id = id, !.user_name = un, !.password = pw] :
        cs \in BOOLEAN, ka \in {24, 260}, cp \in MsgConnectProps, w \in MsgWills,
        id \in {<<>>, <<99>>}, un \in {<<>>, <<104, 105>>}, pw \in {<<>>, <<112>>}}

\* The encodings a peer gives to numbers and strings (MQTT 1.5).
RECURSIVE WireVarInt(_)
WireVarInt(n) == IF n < 128 THEN <<n>> ELSE <<128 + (n % 128)>> \o WireVarInt(n \div 128)

WireStr(b) == <<Len(b) \div 256, Len(b) % 256>> \o b

RECURSIVE Flatten(_)
Flatten(ss) == IF ss = <<>> THEN <<>> ELSE Head(ss) \o Flatten(Tail(ss))

\* Properties as they come in a CONNECT: receive maximum 10, maximum packet
\* size 1024, request problem information 1, authentication method "a" and "",
\* user property ("", "") and ("a", "b"), and will delay interval 1024, which
\* is no property of a CONNECT.
ItemPool ==
    {<<33, 0, 10>>, <<39, 0, 0, 4, 0>>, <<23, 1>>, <<21, 0, 1, 97>>, <<21, 0, 0>>,
     <<38, 0, 0, 0, 0>>, <<38, 0, 1, 97, 0, 1, 98>>, <<24, 0, 0, 4, 0>>}

ItemLists == SeqsUpTo(ItemPool, MaxItems)

\* skew: what the declared property length is off the length of the items.
\* will: <<>> or <<the will's property items>>. user_name, password: <<>> for a
\* clear flag, <<s>> for a set flag and the field s.
WireInputs ==
    [clean_start : {TRUE}, items : ItemLists, skew : (0 - MaxSkew)..MaxSkew,
     client_id : {<<>>}, will : {<<>>, <<<<24, 0, 0, 4, 0>>>>},
     user_name : {<<>>, <<<<>>>>, <<<<104, 105>>>>}, password : {<<>>, <<<<112>>>>}]

WireFlags(d) ==
    (IF d.clean_start THEN 2 ELSE 0) + (IF d.will # <<>> THEN 4 + 8 ELSE 0)
    + (IF d.password # <<>> THEN 64 ELSE 0) + (IF d.user_name # <<>> THEN 128 ELSE 0)

WireBody(d) ==
    <<0, 4, 77, 81, 84, 84, 5, WireFlags(d), 0, 24>>
    \o WireVarInt(Len(Flatten(d.items)) + d.skew) \o Flatten(d.items)
    \o WireStr(d.client_id)
    \o (IF d.will # <<>>
        THEN WireVarInt(Len(d.will[1])) \o d.will[1] \o WireStr(<<97, 47, 98>>) \o WireStr(<<87>>)
        ELSE <<>>)
    \o (IF d.user_name # <<>> THEN WireStr(d.user_name[1]) ELSE <<>>)
    \o (IF d.password # <<>> THEN WireStr(d.password[1]) ELSE <<>>)

WirePacket(d) == <<16>> \o WireVarInt(Len(WireBody(d))) \o WireBody(d)

\* A packet as MQTT 3.1 has it: the property length is the length of the
\* properties, none but the user property comes twice, and each is a property
\* of a CONNECT.
WireStandard(d) ==
    /\ d.skew = 0
    /\ \A i, j \in 1..Len(d.items) :
           (i # j /\ d.items[i][1] = d.items[j][1]) => d.items[i][1] = 38
    /\ \A i \in 1..Len(d.items) : d.items[i][1] # 24

NoWire == [bytes |-> <<>>, skew |-> 0, standard |-> FALSE, src |-> "none"]

(***************************************************************************)
(* The codec at work: a packet is received, decoded, written again and     *)
(* decoded again; a message is composed, written and decoded; a property   *)
(* structure is measured and written, and its block decoded.               *)
(***************************************************************************)
CodecInit ==
    /\ TrieInit
    /\ LockIdle
    /\ QueueIdle
    /\ overflow_checks \in BOOLEAN
    /\ msg = <<>>
    /\ wire = NoWire
    /\ out = <<>>
    /\ cpc = "start"

Receive(d) ==
    /\ cpc = "start"
    /\ Len(Flatten(d.items)) + d.skew >= 0
    /\ wire' = [bytes |-> WirePacket(d), skew |-> d.skew, standard |-> WireStandard(d),
                src |-> "peer"]
    /\ cpc' = "received"
    /\ UNCHANGED <<msg, out, overflow_checks, trieVars, lockVars, queueVars>>

\* FixedHeaderReader::read, then Connect::read.
Decode ==
    /\ cpc = "received"
    /\ out' = ReadPacket(wire.bytes, overflow_checks)
    /\ msg' = IF out'.ok THEN out'.v ELSE <<>>
    /\ cpc' = IF out'.ok THEN "decoded" ELSE "rejected"
    /\ UNCHANGED <<wire, overflow_checks, trieVars, lockVars, queueVars>>

Compose(m) ==
    /\ cpc = "start"
    /\ msg' = m
    /\ cpc' = "composed"
    /\ UNCHANGED <<wire, out, overflow_checks, trieVars, lockVars, queueVars>>

\* Connect::write of the message at hand.
Encode ==
    /\ cpc \in {"decoded", "composed"}
    /\ out' = Connect_write(msg)
    /\ cpc' = "encoded"
    /\ UNCHANGED <<msg, wire, overflow_checks, trieVars, lockVars, queueVars>>

\* The written packet is read back.
Redecode ==
    /\ cpc = "encoded"
    /\ out.ok
    /\ out' = ReadPacket(out.v, overflow_checks)
    /\ cpc' = "redecoded"
    /\ UNCHANGED <<msg, wire, overflow_checks, trieVars, lockVars, queueVars>>

PropsCompose(x) ==
    /\ cpc = "start"
    /\ msg' = x
    /\ cpc' = "props"
    /\ UNCHANGED <<wire, out, overflow_checks, trieVars, lockVars, queueVars>>

\* len() and write() of the property structure at hand.
PropsEncode ==
    /\ cpc = "props"
    /\ out' = [len |-> PropsLen(TableOf(msg.kind), msg.p),
               bytes |-> PropsWrite(TableOf(msg.kind), msg.p)]
    /\ cpc' = "props_encoded"
    /\ UNCHANGED <<msg, wire, overflow_checks, trieVars, lockVars, queueVars>>

\* read() of the block: the length as a varint, then the written bytes.
PropsDecode ==
    /\ cpc = "props_encoded"
    /\ write_varuint32(out.len).ok
    /\ out' = PropsRead(TableOf(msg.kind), write_varuint32(out.len).v \o out.bytes, 1,
                        overflow_checks)
    /\ cpc' = "props_decoded"
    /\ UNCHANGED <<msg, wire, overflow_checks, trieVars, lockVars, queueVars>>

CodecNext ==
    \/ \E d \in WireInputs : Receive(d)
    \/ Decode
    \/ \E m \in Messages : Compose(m)
    \/ Encode
    \/ Redecode
    \/ \E x \in PropsInputs : PropsCompose(x)
    \/ PropsEncode
    \/ PropsDecode

SpecCodec == CodecInit /\ [][CodecNext]_vars

\* C2: a well-formed CONNECT packet that FixedHeaderReader::read and
\* Connect::read accept is reproduced byte for byte by Connect::write of the
\* decoded message.
C2_WriteReproducesAcceptedPacket ==
    (cpc = "encoded" /\ wire.src = "peer" /\ wire.standard) =>
        (out.ok /\ out.v = wire.bytes)

\* C3: for a message that Connect::read produced, Connect::write succeeds and
\* reading the written packet gives a message equal to it in every field.
C3_ReadOfWriteGivesMessage ==
    /\ (cpc = "encoded" /\ wire.src = "peer") => out.ok
    /\ (cpc = "redecoded" /\ wire.src = "peer") => (out.ok /\ out.v = msg)

\* C4: reading the block made of the varint len(p) and the bytes of write(p)
\* gives p again: the empty structure comes back as no properties, any other
\* with its slots as they were and its user-property pairs once and in order.
C4_PropertyBlockRoundTrip ==
    cpc = "props_decoded" =>
        /\ out.ok
        /\ out.v = (IF IsEmptyProps(msg.p) THEN <<>> ELSE <<msg.p>>)

\* C5: len() of a property structure is the number of bytes its write() emits.
C5_LenIsBytesWritten ==
    cpc = "props_encoded" => out.len = Len(out.bytes)

\* C10: in a packet Connect::write produced, the remaining length of the fixed
\* header is the number of bytes that follow the fixed header.
C10_RemainingLengthIsBytesAfterHeader ==
    (cpc = "encoded" /\ out.ok) =>
        LET hdr == FixedHeaderReader_read(out.v, 1)
        IN  hdr.ok /\ hdr.v[2] = Len(out.v) - (hdr.pos - 1)

(***************************************************************************)
(* The codec piece by piece: one call of a reader or writer on an input,   *)
(* the input kept in msg, the bytes in wire and the result in out.         *)
(***************************************************************************)
PrimInit ==
    /\ TrieInit
    /\ LockIdle
    /\ QueueIdle
    /\ overflow_checks \in BOOLEAN
    /\ msg = <<>>
    /\ wire = NoWire
    /\ out = <<>>
    /\ cpc = "start"

\* Properties as a peer encodes them: receive maximum 10 and 11, request
\* problem information, authentication method "a", session expiry interval 5,
\* will delay interval 1024, payload format indicator 1, and the ids 4 (no
\* property of MQTT) and 35 (topic alias, of PUBLISH only).
BlockItems ==
    {<<33, 0, 10>>, <<33, 0, 11>>, <<23, 1>>, <<21, 0, 1, 97>>, <<17, 0, 0, 0, 5>>,
     <<24, 0, 0, 4, 0>>, <<1, 1>>, <<4, 0>>, <<35, 0, 1>>}

BlockLists == SeqsUpTo(BlockItems, MaxBlockItems) \ {<<>>}

\* More properties as a peer encodes them: the user property ("a", "b"),
\* authentication method "" and "a", authentication data of no bytes,
\* content type "", correlation data of no bytes, receive maximum 10 and
\* payload format indicator 1.
SizedItems ==
    {<<38, 0, 1, 97, 0, 1, 98>>, <<21, 0, 0>>, <<21, 0, 1, 97>>, <<22, 0, 0>>,
     <<3, 0, 0>>, <<9, 0, 0>>, <<33, 0, 10>>, <<1, 1>>}

\* The lists of those that belong to the structure.
SizedLists(kind) ==
    SeqsUpTo({it \in SizedItems : \E k \in 1..Len(TableOf(kind)) : TableOf(kind)[k].id = it[1]},
             MaxBlockItems) \ {<<>>}

BlockInputs ==
    {<<kind, items>> : kind \in {"connect", "will"}, items \in BlockLists}
    \cup {<<"connect", items>> : items \in SizedLists("connect")}
    \cup {<<"will", items>> : items \in SizedLists("will")}

\* ConnectProperties::read or WillProperties::read on a block: the length of
\* the properties, then the properties.
ReadBlock(kind, items) ==
    /\ cpc = "start"
    /\ msg' = [kind |-> kind, items |-> items]
    /\ wire' = [NoWire EXCEPT !.bytes = WireVarInt(Len(Flatten(items))) \o Flatten(items),
                              !.src = "block"]
    /\ out' = PropsRead(TableOf(kind), wire'.bytes, 1, overflow_checks)
    /\ cpc' = "block_read"
    /\ UNCHANGED <<overflow_checks, trieVars, lockVars, queueVars>>

\* The lengths of the long values: the last that fits a u16, and beyond.
LongLens == {65535, 65536, 65537, 65636}

\* Writer::write_utf8_string or write_binary on a value of n bytes; out keeps
\* the two bytes written first and the count of all bytes written.
WriteLong(op, n) ==
    /\ cpc = "start"
    /\ msg' = [op |-> op, len |-> n]
    /\ out' = LET value == [i \in 1..n |-> 97]
                  w == IF op = "write_utf8_string" THEN write_utf8_string(value)
                       ELSE write_binary(value)
              IN  [ok |-> w.ok, err |-> w.err, head |-> SubSeq(w.v, 1, 2),
                   written |-> Len(w.v)]
    /\ cpc' = "long_written"
    /\ UNCHANGED <<wire, overflow_checks, trieVars, lockVars, queueVars>>

\* The u32 around the powers of two, up to 2^30 + 1, and two of 2^31 and
\* above: 2^31 + 1 and 2^32 - 1.
VarUints == {2 ^ k + d : k \in 0..30, d \in {-1, 0, 1}}

BigUints == {-2147483647, -1}

\* Writer::write_varuint32
WriteVarUint32(u) ==
    /\ cpc = "start"
    /\ msg' = u
    /\ out' = write_varuint32(u)
    /\ cpc' = "varuint32_written"
    /\ UNCHANGED <<wire, overflow_checks, trieVars, lockVars, queueVars>>

\* Reader::read_varuint32 on the bytes written.
ReadVarUint32 ==
    /\ cpc = "varuint32_written"
    /\ out.ok
    /\ wire' = [NoWire EXCEPT !.bytes = out.v, !.src = "writer"]
    /\ out' = read_varuint32(out.v, 1)
    /\ cpc' = "varuint32_read"
    /\ UNCHANGED <<msg, overflow_checks, trieVars, lockVars, queueVars>>

\* VarUint32Size::size
SizeVarUint32(u) ==
    /\ cpc = "start"
    /\ msg' = u
    /\ out' = VarUint32Size_size(u)
    /\ cpc' = "varuint32_sized"
    /\ UNCHANGED <<wire, overflow_checks, trieVars, lockVars, queueVars>>

\* Bytes with and without continuation bit, and every stream of up to
\* MaxVarBytes of them.
VarBytes == {0, 1, 127, 128, 255}

VarStreams == SeqsUpTo(VarBytes, MaxVarBytes)

\* Reader::read_varuint32 on a stream.
ScanVarUint32(bytes) ==
    /\ cpc = "start"
    /\ msg' = bytes
    /\ wire' = [NoWire EXCEPT !.bytes = bytes, !.src = "stream"]
    /\ out' = read_varuint32(bytes, 1)
    /\ cpc' = "varuint32_scanned"
    /\ UNCHANGED <<overflow_checks, trieVars, lockVars, queueVars>>

\* Characters, each with its code point and its UTF-8 bytes: 'a', ' ', '~',
\* U+00A0, U+20AC and U+1F600, and the control characters U+0000, U+001F,
\* U+007F, U+0080 and U+009F.
CharPool ==
    {[cp |-> 97, bytes |-> <<97>>], [cp |-> 32, bytes |-> <<32>>],
     [cp |-> 126, bytes |-> <<126>>], [cp |-> 160, bytes |-> <<194, 160>>],
     [cp |-> 8364, bytes |-> <<226, 130, 172>>],
     [cp |-> 128512, bytes |-> <<240, 159, 152, 128>>],
     [cp |-> 0, bytes |-> <<0>>], [cp |-> 31, bytes |-> <<31>>],
     [cp |-> 127, bytes |-> <<127>>], [cp |-> 128, bytes |-> <<194, 128>>],
     [cp |-> 159, bytes |-> <<194, 159>>]}

Strings == SeqsUpTo(CharPool, MaxStrChars)

\* str::as_bytes
RECURSIVE as_bytes(_)
as_bytes(str) == IF str = <<>> THEN <<>> ELSE Head(str).bytes \o as_bytes(Tail(str))

\* Writer::write_utf8_string
WriteUtf8String(str) ==
    /\ cpc = "start"
    /\ msg' = str
    /\ out' = write_utf8_string(as_bytes(str))
    /\ cpc' = "utf8_written"
    /\ UNCHANGED <<wire, overflow_checks, trieVars, lockVars, queueVars>>

\* Reader::read_utf8_string on the bytes written.
ReadUtf8String ==
    /\ cpc = "utf8_written"
    /\ out.ok
    /\ wire' = [NoWire EXCEPT !.bytes = out.v, !.src = "writer"]
    /\ out' = read_utf8_string(out.v, 1)
    /\ cpc' = "utf8_read"
    /\ UNCHANGED <<msg, overflow_checks, trieVars, lockVars, queueVars>>

\* A CONNECT after its fixed header, with the connect flags f and the fields
\* the flags announce: a will of topic "a", the user name "u", the password "p".
FlagsPacket(f) ==
    <<0, 4, 77, 81, 84, 84, 5, f, 0, 24, 0, 0, 0>>
    \o (IF (f \div 4) % 2 = 1 THEN <<0, 0, 1, 97, 0, 0>> ELSE <<>>)
    \o (IF (f \div 128) % 2 = 1 THEN <<0, 1, 117>> ELSE <<>>)
    \o (IF (f \div 64) % 2 = 1 THEN <<0, 1, 112>> ELSE <<>>)

\* Connect::read on a packet with the connect flags f.
ReadFlags(f) ==
    /\ cpc = "start"
    /\ msg' = f
    /\ wire' = [NoWire EXCEPT !.bytes = FlagsPacket(f), !.src = "flags"]
    /\ out' = Connect_read(FlagsPacket(f), 1, overflow_checks)
    /\ cpc' = "flags_read"
    /\ UNCHANGED <<overflow_checks, trieVars, lockVars, queueVars>>

\* The characters of the filters: a literal of one byte and one of two, the
\* separator and the wildcards.
FilterChars == {"a", "e2", "/", "+", "#"}

Filters == SeqsUpTo(FilterChars, MaxFilterChars)

\* validate_subscribe_topic
ValidateFilter(filter) ==
    /\ cpc = "start"
    /\ msg' = filter
    /\ out' = validate_subscribe_topic(filter)
    /\ cpc' = "filter_validated"
    /\ UNCHANGED <<wire, overflow_checks, trieVars, lockVars, queueVars>>

\* The characters of the topic names: a literal of one byte and one of two,
\* the blank, the separator and the wildcards.
TopicChars == {"a", "e2", " ", "/", "+", "#"}

\* A topic given by its shape: n characters c and then the characters of tail.
TopicOf(shape) == [i \in 1..shape.n |-> shape.c] \o shape.tail

\* Topics at the length limit: 65535 and 65536 bytes of one-byte characters,
\* 65534 and 65536 bytes of two-byte characters, and 65535 and 65536 bytes
\* that end in a wildcard.
LongShapes ==
    {[c |-> "a", n |-> MaxTopicBytes - 1, tail |-> <<"a">>],
     [c |-> "a", n |-> MaxTopicBytes, tail |-> <<"a">>],
     [c |-> "e2", n |-> (MaxTopicBytes \div 2) - 1, tail |-> <<"e2">>],
     [c |-> "e2", n |-> MaxTopicBytes \div 2, tail |-> <<"e2">>],
     [c |-> "a", n |-> MaxTopicBytes - 1, tail |-> <<"#">>],
     [c |-> "a", n |-> MaxTopicBytes, tail |-> <<"+">>]}

PublishShapes ==
    {[c |-> "a", n |-> 0, tail |-> t] : t \in SeqsUpTo(TopicChars, MaxFilterChars)}
    \cup LongShapes

\* validate_publish_topic
ValidatePublish(shape) ==
    /\ cpc = "start"
    /\ msg' = TopicOf(shape)
    /\ out' = validate_publish_topic(TopicOf(shape))
    /\ cpc' = "publish_validated"
    /\ UNCHANGED <<wire, overflow_checks, trieVars, lockVars, queueVars>>

PrimNext ==
    \/ \E b \in BlockInputs : ReadBlock(b[1], b[2])
    \/ \E op \in {"write_utf8_string", "write_binary"}, n \in LongLens : WriteLong(op, n)
    \/ \E filter \in Filters : ValidateFilter(filter)
    \/ \E f \in 0..255 : ReadFlags(f)
    \/ \E u \in VarUints \cup BigUints : WriteVarUint32(u)
    \/ ReadVarUint32
    \/ \E u \in VarUints : SizeVarUint32(u)
    \/ \E bytes \in VarStreams : ScanVarUint32(bytes)
    \/ \E str \in Strings : WriteUtf8String(str)
    \/ ReadUtf8String
    \/ \E shape \in PublishShapes : ValidatePublish(shape)

SpecPrim == PrimInit /\ [][PrimNext]_vars

\* The property ids of a CONNECT and of a will (MQTT 3.1.2.11, 3.1.3.2), and
\* those that may come more than once.
IdsOf(kind) ==
    IF kind = "connect" THEN {17, 33, 39, 34, 23, 25, 38, 21, 22}
    ELSE {24, 1, 2, 3, 8, 9, 38}

Repeatable == {38}

\* Every id of the block belongs to the structure.
AllKnown(kind, items) == \A i \in 1..Len(items) : items[i][1] \in IdsOf(kind)

\* A singular id comes twice in the block.
HasDuplicate(items) ==
    \E i, j \in 1..Len(items) :
        i < j /\ items[i][1] = items[j][1] /\ items[i][1] \notin Repeatable

\* C11: reading a block in which a singular property comes twice fails with
\* PropertyAlreadyExists; it never succeeds with the later value in the slot.
C11_DuplicateSingularPropertyFails ==
    (cpc = "block_read" /\ AllKnown(msg.kind, msg.items) /\ HasDuplicate(msg.items)) =>
        (~out.ok /\ out.err = "PropertyAlreadyExists")

\* C18: reading a block with an id that has no entry in the structure's table
\* fails with InvalidPropertyID and returns no structure.
C18_UnknownPropertyIdFails ==
    (cpc = "block_read" /\ ~AllKnown(msg.kind, msg.items)) =>
        (~out.ok /\ out.err = "InvalidPropertyID" /\ out.v = <<>>)

\* C18 witness: a property of the structure is read, then an id without entry
\* is met and the read has failed.
C18_UnknownIdAfterKnown ==
    /\ cpc = "block_read"
    /\ Len(msg.items) = 2
    /\ msg.items[1][1] \in IdsOf(msg.kind)
    /\ msg.items[2][1] \notin IdsOf(msg.kind)
    /\ ~out.ok

\* C12: write_utf8_string and write_binary on a value of more than 65535 bytes
\* return an error; they write no wrapped length followed by the content.
C12_LongValueIsRefused ==
    (cpc = "long_written" /\ msg.len > 65535) => ~out.ok

\* C13: for u in 0 .. 268435455, write_varuint32(u) succeeds and
\* read_varuint32 on the bytes written returns u, all bytes read.
C13_VarUint32RoundTrip ==
    /\ (cpc = "varuint32_written" /\ msg >= 0 /\ msg <= 268435455) => out.ok
    /\ cpc = "varuint32_read" =>
          (out.ok /\ out.v = msg /\ out.pos = Len(wire.bytes) + 1)

\* C13 witness: the largest value has been written in four bytes and read back.
C13_MaxValueReadBack ==
    cpc = "varuint32_read" /\ msg = 268435455 /\ Len(wire.bytes) = 4 /\ out.ok

\* The place of the first byte without continuation bit, or 0.
FirstFinal(bytes) ==
    IF \E k \in 1..Len(bytes) : bytes[k] < 128
    THEN CHOOSE k \in 1..Len(bytes) : bytes[k] < 128 /\ \A j \in 1..(k - 1) : bytes[j] >= 128
    ELSE 0

\* C14: read_varuint32 takes at most four bytes off the stream: a value that
\* ends within four bytes is returned with the cursor behind its last byte, a
\* fourth byte with continuation bit is an error without a fifth byte being
\* read, and a stream that ends before the value does is an error.
C14_ReadsAtMostFourBytes ==
    cpc = "varuint32_scanned" =>
        IF FirstFinal(msg) \in 1..4
        THEN out.ok /\ out.pos = FirstFinal(msg) + 1
        ELSE IF Len(msg) >= 4
        THEN ~out.ok /\ out.err = "InvalidVarUint32Length"
        ELSE ~out.ok /\ out.err = "MalformedPacket"

\* C14 witness: a stream of just four bytes, each with continuation bit, has
\* been refused.
C14_FourContinuationBytes ==
    cpc = "varuint32_scanned" /\ msg = <<128, 128, 128, 128>> /\ ~out.ok

\* C15: write_varuint32(u) for u above 268435455 returns an error and writes
\* no byte.
C15_WriteRefusesAboveMax ==
    (cpc = "varuint32_written" /\ (msg < 0 \/ msg > 268435455)) =>
        (~out.ok /\ out.v = <<>>)

\* C15 witness: 268435456 and 2^32 - 1 have been refused.
C15_JustAboveMaxRefused ==
    cpc = "varuint32_written" /\ msg = 268435456 /\ ~out.ok

\* C16: for u in 0 .. 268435455, VarUint32Size::size(u) is the number of bytes
\* write_varuint32(u) emits: 1 up to 127, 2 up to 16383, 3 up to 2097151, 4
\* up to 268435455.
C16_SizeIsBytesWritten ==
    (cpc = "varuint32_sized" /\ msg <= 268435455) =>
        /\ out = Len(write_varuint32(msg).v)
        /\ out = (IF msg <= 127 THEN 1 ELSE IF msg <= 16383 THEN 2
                  ELSE IF msg <= 2097151 THEN 3 ELSE 4)

\* C16 witness: the size of 2097152, the first value of four bytes, is taken.
C16_FirstFourByteValueSized ==
    cpc = "varuint32_sized" /\ msg = 2097152 /\ out = 4

\* A code point MQTT text must not have: U+0000..U+001F and U+007F..U+009F.
Forbidden(cp) == (cp >= 0 /\ cp <= 31) \/ (cp >= 127 /\ cp <= 159)

\* C17: read_utf8_string on what write_utf8_string wrote returns an error if
\* a character at any place is U+0000..U+001F or U+007F..U+009F, and else
\* the string itself, the empty one included.
C17_Utf8StringReadBack ==
    cpc = "utf8_read" =>
        IF \E k \in 1..Len(msg) : Forbidden(msg[k].cp)
        THEN ~out.ok /\ out.err = "InvalidUTF8String"
        ELSE out.ok /\ out.v = as_bytes(msg) /\ out.pos = Len(wire.bytes) + 1

\* C17 witness: a string whose second character is U+009F has been refused.
C17_ControlCharacterAtTheEnd ==
    /\ cpc = "utf8_read"
    /\ Len(msg) = 2
    /\ msg[1].cp = 8364
    /\ msg[2].cp = 159
    /\ ~out.ok

\* C19: Connect::read rejects a connect-flags byte with InvalidConnectFlags
\* when bit 0 is set, else with InvalidWillQos when the will QoS is 3 with
\* the will flag or not 0 without it, else with InvalidWillRetain when will
\* retain is set without the will flag; every other byte passes, and the
\* packet is read.
C19_ConnectFlagsValidation ==
    cpc = "flags_read" =>
        LET will_flag == (msg \div 4) % 2 = 1
            will_qos == (msg \div 8) % 4
            will_retain == (msg \div 32) % 2 = 1
        IN  IF msg % 2 = 1 THEN ~out.ok /\ out.err = "InvalidConnectFlags"
            ELSE IF (will_flag /\ will_qos = 3) \/ (~will_flag /\ will_qos # 0)
            THEN ~out.ok /\ out.err = "InvalidWillQos"
            ELSE IF ~will_flag /\ will_retain
            THEN ~out.ok /\ out.err = "InvalidWillRetain"
            ELSE out.ok

\* C19 witness: the byte 0x29 (reserved bit, will QoS 1 and will retain, no
\* will flag) has been rejected for its reserved bit.
C19_ReservedBitComesFirst ==
    cpc = "flags_read" /\ msg = 41 /\ ~out.ok /\ out.err = "InvalidConnectFlags"

\* '+' is a whole segment, '#' a whole segment and the last one.
WellFormedFilter(f) ==
    /\ f # <<>>
    /\ \A i \in 1..Len(f) :
          /\ f[i] = "+" => (i = 1 \/ f[i - 1] = "/") /\ (i = Len(f) \/ f[i + 1] = "/")
          /\ f[i] = "#" => (i = 1 \/ f[i - 1] = "/") /\ i = Len(f)

\* C20: validate_subscribe_topic returns Ok if and only if the filter is not
\* empty, every '+' is a whole segment and every '#' is the last character
\* and begins a segment.
C20_FilterValidIffWellFormed ==
    cpc = "filter_validated" => (out = "Ok" <=> WellFormedFilter(msg))

\* C21: validate_publish_topic returns an error if and only if the topic has
\* more than 65535 bytes or a '+' or '#' at any place; every other topic,
\* with empty or blank segments too, is accepted.
C21_PublishTopicErrorIffLongOrWildcard ==
    cpc = "publish_validated" =>
        (out # "Ok" <=> (ByteLen(msg) > 65535 \/ \E i \in 1..Len(msg) : msg[i] \in {"+", "#"}))

\* C21 witness: a topic of 32768 two-byte characters, which is 65536 bytes,
\* has been refused for its length.
C21_TwoByteCharactersOverTheLimit ==
    cpc = "publish_validated" /\ Len(msg) = 32768 /\ msg[1] = "e2" /\ out = "TopicLenTooLong"

\* The same filter written with one-byte characters only.
OneByte(f) == [i \in 1..Len(f) |-> IF ByteWidth(f[i]) = 1 THEN f[i] ELSE "a"]

\* C30: validate_subscribe_topic returns Ok or Err and never aborts, and a
\* filter with characters of several bytes gets the verdict of the same
\* filter written with one-byte characters.
C30_FilterVerdictIgnoresByteWidth ==
    cpc = "filter_validated" =>
        /\ out # "Panic"
        /\ out = validate_subscribe_topic(OneByte(msg))

(***************************************************************************)
(* More claims about the trie.                                             *)
(***************************************************************************)
\* The node at path p is reached by a walk along the levels parts: every
\* segment of p is the level at its place or '+'.
Walks(p, parts) ==
    /\ Len(p) <= Len(parts)
    /\ \A i \in 1..Len(p) : p[i] = parts[i] \/ p[i] = <<"+">>

\* C25: match_topic is true only if some node reached along the topic is
\* marked subscribed or has a '#' child; a filter with levels after a '+'
\* does not match a topic that ends at the '+' level.
C25_MatchEndsAtSubscribedNode ==
    (last.op = "match" /\ last.matched /\ validate_publish_topic(last.topic) = "Ok") =>
        \E p \in DOMAIN nodes :
            /\ Walks(p, Split(last.topic))
            /\ has_child(nodes, p, <<"#">>) \/ has_subscription(nodes, p)

\* The filter g has its terminal node in the trie n, marked subscribed.
Subscribed(n, g) == Split(g) \in DOMAIN n /\ has_subscription(n, Split(g))

\* C26: unsubscribe(f) leaves every other filter that was subscribed before
\* the call subscribed: its terminal node still exists and is still marked,
\* also when the filter is a prefix path of f.
C26_UnsubscribeKeepsOtherFilters ==
    last.op = "unsubscribe" =>
        \A g \in Topics \ {last.topic} : Subscribed(pre, g) => Subscribed(nodes, g)

\* C28: a topic that matched before a successful subscribe(g) matches after
\* it.
C28_MatchingIsMonotone ==
    (last.op = "subscribe" /\ last.result = "Ok") =>
        \A t \in PublishTopics : contains(pre, t) => contains(nodes, t)

\* C29: a subscribe whose filter fails validation returns the validation
\* error and leaves the trie as it was: no node created or marked, and
\* match_topic answers as before for every topic.
C29_RefusedSubscribeLeavesTrie ==
    (last.op = "subscribe" /\ validate_subscribe_topic(last.topic) # "Ok") =>
        /\ last.result = validate_subscribe_topic(last.topic)
        /\ nodes = pre
        /\ \A t \in Topics : contains(nodes, t) = contains(pre, t)

\* C29 witness: "a/+b" has been refused on a trie that holds subscriptions.
C29_RefusedOnPopulatedTrie ==
    /\ last.op = "subscribe"
    /\ last.result = "InvalidTopic"
    /\ subs # {}
    /\ NodeCount(nodes) > 0

\* C24: in the decode of a property block the remaining-length counter goes
\* down by the bytes each property has on the wire, never below zero, and
\* the loop ends at the end of the declared block: a block of properties of
\* the structure is read to its last byte, also with an empty string or
\* binary value and with several user properties.
C24_BlockReadEndsAtDeclaredEnd ==
    (cpc = "block_read" /\ AllKnown(msg.kind, msg.items)) =>
        (out.ok /\ out.pos = Len(wire.bytes) + 1)

\* The connect flags of a CONNECT packet: the byte after the fixed header,
\* the protocol name and the protocol version.
ConnectFlagsOf(packet) ==
    LET last_len == CHOOSE k \in 2..5 : packet[k] < 128 /\ \A j \in 2..(k - 1) : packet[j] >= 128
    IN  packet[last_len + 8]

\* C27: the user-name flag (bit 7) and the password flag (bit 6) that
\* Connect::write writes are those of the packet the message was decoded
\* from, a flag set with a field of no bytes included.
C27_WrittenFlagsAreReceivedFlags ==
    (cpc = "encoded" /\ wire.src = "peer" /\ out.ok) =>
        /\ Bit(ConnectFlagsOf(out.v), 7) = Bit(ConnectFlagsOf(wire.bytes), 7)
        /\ Bit(ConnectFlagsOf(out.v), 6) = Bit(ConnectFlagsOf(wire.bytes), 6)

(***************************************************************************)
(* The SyncQueue (src/src/syncqueue.rs) under threads: producers that push *)
(* their values, ask for the length and may close the queue, and consumers *)
(* that loop on pop until it fails and then drain the queue. The mutex     *)
(* guards data; closed is an atomic flag stored without the mutex; cv      *)
(* holds the threads blocked in Condvar::wait.                             *)
(***************************************************************************)
QueueInit == TrieInit /\ LockIdle /\ CodecIdle /\ QueueIdle

\* The value of a producer's n-th push: 1, 2 for p1 and 3, 4 for p2.
ValueOf(t, n) == (IF t = "p1" THEN 0 ELSE PushesPerProducer) + n

\* VecDeque::push_front, against push_back.
push_front(data, value) == <<value>> \o data

\* VecDeque::push_back
push_back(data, value) == Append(data, value)

\* Mutex::lock, when it returns.
QLock(t) == queue.mutex = NoThread /\ queue' = [queue EXCEPT !.mutex = t]

\* push: let mut data = self.data.lock().unwrap()
PushAcquire(t) ==
    /\ qthr[t].pc = "idle"
    /\ qthr[t].n < PushesPerProducer
    /\ QLock(t)
    /\ qthr' = [qthr EXCEPT ![t].pc = "push_locked", ![t].ret = "none", ![t].v = 0, ![t].at = 0]
    /\ UNCHANGED <<pushed, popped, trieVars, lockVars, codecVars>>

\* push: if self.closed.load(..) { return Err(..) }
PushCheck(t) ==
    /\ qthr[t].pc = "push_locked"
    /\ IF queue.closed
       THEN /\ queue' = [queue EXCEPT !.mutex = NoThread]
            /\ qthr' = [qthr EXCEPT ![t].pc = "idle", ![t].ret = "Err", ![t].n = @ + 1]
       ELSE /\ qthr' = [qthr EXCEPT ![t].pc = "push_open"]
            /\ UNCHANGED queue
    /\ UNCHANGED <<pushed, popped, trieVars, lockVars, codecVars>>

\* push: data.push_back(value); self.cv.notify_one(); return Ok(()). The
\* thread notified, if any waits, leaves the wait and has yet to lock again.
PushBack(t) ==
    /\ qthr[t].pc = "push_open"
    /\ \E woken \in (IF queue.cv = {} THEN {{}} ELSE {{w} : w \in queue.cv}) :
          /\ queue' = [queue EXCEPT !.data = push_back(@, ValueOf(t, qthr[t].n + 1)),
                                    !.cv = @ \ woken, !.mutex = NoThread]
          /\ qthr' = [u \in QThreads |->
                         IF u = t THEN [qthr[u] EXCEPT !.pc = "idle", !.ret = "Ok", !.n = @ + 1]
                         ELSE IF u \in woken THEN [qthr[u] EXCEPT !.pc = "woken"]
                         ELSE qthr[u]]
    /\ pushed' = Append(pushed, ValueOf(t, qthr[t].n + 1))
    /\ UNCHANGED <<popped, trieVars, lockVars, codecVars>>

\* close: self.closed.store(true, ..), and nothing else.
Close(t) ==
    /\ qthr[t].pc = "idle"
    /\ queue' = [queue EXCEPT !.closed = TRUE]
    /\ qthr' = [qthr EXCEPT ![t].pc = "done", ![t].ret = "none", ![t].v = 0, ![t].at = 0]
    /\ UNCHANGED <<pushed, popped, trieVars, lockVars, codecVars>>

\* len: lock, data.len(), unlock. v is the length returned, at the number of
\* the pushes less that of the pops done when it was taken.
QueueLen(t) ==
    /\ qthr[t].pc = "idle"
    /\ queue.mutex = NoThread
    /\ qthr' = [qthr EXCEPT ![t].ret = "Len", ![t].v = Len(queue.data),
                            ![t].at = Len(pushed) - Len(popped)]
    /\ qthr'[t] # qthr[t]
    /\ UNCHANGED <<queue, pushed, popped, trieVars, lockVars, codecVars>>

\* pop: let mut data = self.data.lock().unwrap()
PopAcquire(t) ==
    /\ qthr[t].pc = "idle"
    /\ QLock(t)
    /\ qthr' = [qthr EXCEPT ![t].pc = "pop_locked", ![t].ret = "none", ![t].v = 0]
    /\ UNCHANGED <<pushed, popped, trieVars, lockVars, codecVars>>

\* pop: closed = self.closed.load(..), before the loop and in it.
PopLoad(t) ==
    /\ qthr[t].pc = "pop_locked"
    /\ qthr' = [qthr EXCEPT ![t].pc = "pop_test", ![t].closed = queue.closed]
    /\ UNCHANGED <<queue, pushed, popped, trieVars, lockVars, codecVars>>

\* pop: while data.is_empty() && !closed { data = self.cv.wait(data) }: the
\* wait gives the mutex up and blocks.
PopWait(t) ==
    /\ qthr[t].pc = "pop_test"
    /\ queue.data = <<>> /\ ~qthr[t].closed
    /\ queue' = [queue EXCEPT !.mutex = NoThread, !.cv = @ \cup {t}]
    /\ qthr' = [qthr EXCEPT ![t].pc = "waiting"]
    /\ UNCHANGED <<pushed, popped, trieVars, lockVars, codecVars>>

\* Condvar::wait may return without a notify.
SpuriousWake(t) ==
    /\ qthr[t].pc = "waiting"
    /\ queue' = [queue EXCEPT !.cv = @ \ {t}]
    /\ qthr' = [qthr EXCEPT ![t].pc = "woken"]
    /\ UNCHANGED <<pushed, popped, trieVars, lockVars, codecVars>>

\* Condvar::wait locks the mutex again before it returns.
PopRelock(t) ==
    /\ qthr[t].pc = "woken"
    /\ QLock(t)
    /\ qthr' = [qthr EXCEPT ![t].pc = "pop_locked"]
    /\ UNCHANGED <<pushed, popped, trieVars, lockVars, codecVars>>

\* pop: if closed { return Err(..) }; consume then goes on to drain.
PopClosed(t) ==
    /\ qthr[t].pc = "pop_test"
    /\ qthr[t].closed
    /\ queue' = [queue EXCEPT !.mutex = NoThread]
    /\ qthr' = [qthr EXCEPT ![t].pc = "errored", ![t].ret = "Err"]
    /\ UNCHANGED <<pushed, popped, trieVars, lockVars, codecVars>>

\* pop: return Ok(data.pop_front().unwrap())
PopFront(t) ==
    /\ qthr[t].pc = "pop_test"
    /\ queue.data # <<>> /\ ~qthr[t].closed
    /\ queue' = [queue EXCEPT !.data = Tail(@), !.mutex = NoThread]
    /\ qthr' = [qthr EXCEPT ![t].pc = "idle", ![t].ret = "Ok", ![t].v = Head(queue.data)]
    /\ popped' = Append(popped, Head(queue.data))
    /\ UNCHANGED <<pushed, trieVars, lockVars, codecVars>>

\* consume: queue.drain(); break
Drain(t) ==
    /\ qthr[t].pc = "errored"
    /\ queue.mutex = NoThread
    /\ queue' = [queue EXCEPT !.data = <<>>]
    /\ qthr' = [qthr EXCEPT ![t].pc = "done"]
    /\ UNCHANGED <<pushed, popped, trieVars, lockVars, codecVars>>

QueueNext ==
    \/ \E t \in Producers : PushAcquire(t)
    \/ \E t \in Producers : PushCheck(t)
    \/ \E t \in Producers : PushBack(t)
    \/ \E t \in Producers : Close(t)
    \/ \E t \in Producers : QueueLen(t)
    \/ \E t \in Consumers : PopAcquire(t)
    \/ \E t \in Consumers : PopLoad(t)
    \/ \E t \in Consumers : PopWait(t)
    \/ \E t \in Consumers : SpuriousWake(t)
    \/ \E t \in Consumers : PopRelock(t)
    \/ \E t \in Consumers : PopClosed(t)
    \/ \E t \in Consumers : PopFront(t)
    \/ \E t \in Consumers : Drain(t)

SpecQueue == QueueInit /\ [][QueueNext]_vars

\* C22: while the queue is open every push succeeds, the values popped and
\* the values in the queue are, in this order, the values pushed in the order
\* of their pushes (so no value is popped twice and the pops follow the
\* pushes' order), and len() is the number of pushes minus that of the pops.
C22_OpenQueueIsFifo ==
    ~queue.closed =>
        /\ pushed = popped \o queue.data
        /\ \A i, j \in 1..Len(popped) : i # j => popped[i] # popped[j]
        /\ \A t \in Producers :
              /\ qthr[t].ret # "Err"
              /\ qthr[t].ret = "Len" => qthr[t].v = qthr[t].at

\* C22 witness: on the open queue the pushes of the two producers have
\* interleaved, two values are popped by different consumers and a third is
\* in the queue.
C22_InterleavedPushesPoppedInOrder ==
    /\ ~queue.closed
    /\ pushed = <<3, 1, 4>>
    /\ popped = <<3, 1>>
    /\ qthr["c1"].v = 1 /\ qthr["c2"].v = 3
    /\ queue.data = <<4>>

\* The scheduling the liveness of the queue may count on: a thread that
\* holds the mutex goes on, a thread that wants the mutex gets it if it is
\* free again and again, and the consumers go on calling pop. A wake-up
\* without notify may come but need not, and no producer has to call.
QueueFairness ==
    /\ \A t \in Producers : WF_vars(PushCheck(t)) /\ WF_vars(PushBack(t))
    /\ \A t \in Consumers :
          /\ SF_vars(PopAcquire(t)) /\ SF_vars(PopRelock(t)) /\ SF_vars(Drain(t))
          /\ WF_vars(PopLoad(t)) /\ WF_vars(PopWait(t))
          /\ WF_vars(PopClosed(t)) /\ WF_vars(PopFront(t))

SpecQueueLive == QueueInit /\ [][QueueNext]_vars /\ QueueFairness

\* C23: once close() has been called every pop, one that is blocked on the
\* empty queue too, returns the queue-closed error in the end, so every
\* consumer that loops on pop comes to its end.
C23_ConsumersEndAfterClose ==
    \A t \in Consumers : queue.closed ~> (qthr[t].pc = "done" /\ qthr[t].ret = "Err")

====
